---- MODULE Spec2Model ----
(***************************************************************************)
(* A model of the count-based cluster rebalancing planner:                 *)
(*   kafka_cluster_manager/cluster_info/partition_count_balancer.py        *)
(*   kafka_cluster_manager/cluster_info/rg.py                              *)
(* The topology is {replication group -> broker -> partition replica}.     *)
(* Every top-level operation of the planner is one action; the helpers it  *)
(* calls are operators over a replica map R (partition -> ordered list of  *)
(* brokers, first = preferred leader) and the decommissioned set D.        *)
(***************************************************************************)
EXTENDS Integers, Sequences, FiniteSets, TLC

(***************************************************************************)
(* Bounds of the model.                                                    *)
(***************************************************************************)
\* Replication factor of a partition in the topology the loader builds.
MaxRF == 2
\* Iterations one balancing loop may make before it counts as not ending.
MaxLoop == 12

\* An id that names no broker / no partition of the topology.
NoBroker == 0
NoPartition == 0

VARIABLES
    replicas,        \* partition -> ordered list of brokers (Partition.replicas)
    decommissioned,  \* brokers marked decommissioned (Broker.decommissioned)
    inactive,        \* brokers flagged inactive by the loader (Broker.inactive)
    rgOf,            \* broker -> replication group (Broker.replication_group)
    setOrder,        \* iteration order of the interpreter's sets and dicts
    op,              \* the last top-level call and its arguments
    outcome,         \* how the last call ended: "ok" or the error raised
    pre,             \* replica map and decommissioned set before the last call
    trace,           \* the replica moves the last call made, in order
    observed,        \* whether op, outcome, pre and trace are recorded
    first,           \* the call an earlier run made on the same input, and its result
    client           \* KafkaToolClient: the offset commit request under way

vars == <<replicas, decommissioned, inactive, rgOf, setOrder, op, outcome, pre, trace,
          observed, first, client>>

\* No earlier run on this input.
NoRun == [op |-> [name |-> "none", args |-> <<>>], R |-> <<>>, D |-> {},
          outcome |-> "none", trace |-> <<>>]

\* No offset commit request has been sent.
NoCall == [status |-> "idle", args |-> [group |-> 0, fail_on_error |-> TRUE,
                                        callback |-> FALSE],
           attempts |-> 0, raised |-> "none", log |-> <<>>]

\* ClusterTopology.brokers, .rgs and .partitions (keyed by id).
Brokers == DOMAIN rgOf
Groups == {rgOf[b] : b \in Brokers}
Partitions == DOMAIN replicas

\* Partition p belongs to topic TopicOf(p): odd and even partitions are the
\* two topics of the cluster.
TopicOf(p) == p % 2

(***************************************************************************)
(* Sequences, orders and the interpreter's selection primitives.           *)
(***************************************************************************)
Range(s) == {s[i] : i \in 1..Len(s)}

Asc(S) ==
    [i \in 1..Cardinality(S) |-> CHOOSE x \in S : Cardinality({y \in S : y < x}) = i - 1]

Reverse(s) == [i \in 1..Len(s) |-> s[Len(s) + 1 - i]]

\* The order in which a set (or a dict's values) is iterated.
Iter(S) == IF setOrder = "asc" THEN Asc(S) ELSE Reverse(Asc(S))

SelectSeqBy(s, keep) ==
    LET idx == Asc({i \in 1..Len(s) : keep[s[i]]})
    IN [n \in 1..Len(idx) |-> s[idx[n]]]

RemoveFirst(s, x) ==
    IF x \notin Range(s) THEN s
    ELSE LET i == CHOOSE i \in 1..Len(s) : s[i] = x /\ \A j \in 1..(i - 1) : s[j] # x
         IN SubSeq(s, 1, i - 1) \o SubSeq(s, i + 1, Len(s))

\* sorted(s, key=k, reverse=rev): stable in both directions.
sorted(s, k, rev) ==
    LET before(j, i) ==
            \/ (IF rev THEN k[s[j]] > k[s[i]] ELSE k[s[j]] < k[s[i]])
            \/ (k[s[j]] = k[s[i]] /\ j < i)
        pos(i) == 1 + Cardinality({j \in 1..Len(s) : before(j, i)})
    IN [n \in 1..Len(s) |-> s[CHOOSE i \in 1..Len(s) : pos(i) = n]]

\* min(s, key=k) and max(s, key=k): the first extremal element; s is not empty.
min(s, k) ==
    s[CHOOSE i \in 1..Len(s) :
        \A j \in 1..Len(s) : k[s[i]] < k[s[j]] \/ (k[s[i]] = k[s[j]] /\ i <= j)]

max(s, k) ==
    s[CHOOSE i \in 1..Len(s) :
        \A j \in 1..Len(s) : k[s[i]] > k[s[j]] \/ (k[s[i]] = k[s[j]] /\ i <= j)]

RECURSIVE SumOver(_, _)
SumOver(S, f) ==
    IF S = {} THEN 0
    ELSE LET x == CHOOSE x \in S : TRUE IN f[x] + SumOver(S \ {x}, f)

(***************************************************************************)
(* Utilities: compute_optimum and separate_groups.                         *)
(***************************************************************************)
\* compute_optimum(bucket_count, total) -> (quotient, remainder); bucket_count > 0.
compute_optimum(groups, elements) ==
    [opt |-> elements \div groups, extra |-> elements % groups]

\* separate_groups(items, load, total) -> (over, under); items is not empty.
\* over and under are listed by load descending, then by item key.
separate_groups(items, load, total) ==
    LET o == compute_optimum(Cardinality(items), total)
        byLoad == sorted(Asc(items), load, TRUE)
        atTop == SelectSeqBy(byLoad, [x \in items |-> load[x] = o.opt + 1])
        beyond == {atTop[i] : i \in (o.extra + 1)..Len(atTop)}
    IN [over  |-> SelectSeqBy(byLoad,
                      [x \in items |-> load[x] > o.opt + 1 \/ x \in beyond]),
        under |-> SelectSeqBy(byLoad, [x \in items |-> load[x] < o.opt])]

(***************************************************************************)
(* Broker and Partition.                                                   *)
(***************************************************************************)
\* Broker.partitions: the partitions replicated on broker b.
partitions(R, b) == {p \in Partitions : b \in Range(R[p])}

empty(R, b) == partitions(R, b) = {}

\* len(broker.partitions) of every broker.
len_partitions(R) == [b \in Brokers |-> Cardinality(partitions(R, b))]

\* Broker.count_partitions(topic)
count_partitions(R, b, t) == Cardinality({p \in partitions(R, b) : TopicOf(p) = t})

\* Partition.count_siblings(partitions): partitions of the same topic among ps.
count_siblings(p, ps) == Cardinality({q \in ps : TopicOf(q) = TopicOf(p)})

\* Broker.count_preferred_replica(): partitions led by b.
count_preferred_replica(R, b) ==
    Cardinality({p \in Partitions : Len(R[p]) > 0 /\ R[p][1] = b})

\* Broker.move_partition(partition, destination): the source leaves the
\* replica list and the destination joins it.
move_partition(R, p, source, dest) ==
    [R EXCEPT ![p] = Append(RemoveFirst(R[p], source), dest)]

\* Partition.swap_leader(new_leader): new_leader first, the others keep
\* their relative order.
swap_leader(R, p, b) ==
    [R EXCEPT ![p] = <<b>> \o RemoveFirst(R[p], b)]

(***************************************************************************)
(* ReplicationGroup: accessors.                                            *)
(***************************************************************************)
brokers(g) == {b \in Brokers : rgOf[b] = g}

\* len(rg.partitions): the replicas held in g, with multiplicity.
rg_partition_count(R, g) ==
    SumOver(brokers(g), [b \in Brokers |-> Cardinality(partitions(R, b))])

\* rg.partitions as a set.
rg_partitions(R, g) == UNION {partitions(R, b) : b \in brokers(g)}

count_replica(R, g, p) == Cardinality({b \in brokers(g) : p \in partitions(R, b)})

_extract_decommissioned(D, g) == {b \in brokers(g) : b \in D}

(***************************************************************************)
(* ReplicationGroup.rebalance_brokers: partition count across the brokers  *)
(* of one group.  A result is [R, err, moves]: the replica map, the error  *)
(* raised ("none" when the call returned) and the moves made, in order.    *)
(***************************************************************************)
Absent == -1
None == 0
NoError == "none"

Move(p, source, dest) == [partition |-> p, from |-> source, to |-> dest]

\* partitions_sib_info: sibling counts of the partitions of the over-loaded
\* brokers on each under-loaded broker; every other entry is absent.
partitions_sib_info(R, over, under) ==
    [p \in Partitions |->
        [d \in Brokers |->
            IF d \in Range(under) /\ \E s \in Range(over) : p \in partitions(R, s)
            THEN count_siblings(p, partitions(R, d))
            ELSE Absent]]

\* Broker.get_preferred_partition(broker, sibling_info): among the partitions
\* on source and not on dest, the one with the fewest siblings on dest (an
\* absent count reads as zero), the smallest partition key first.
get_preferred_partition(R, source, dest, sib) ==
    LET eligible == partitions(R, source) \ partitions(R, dest)
    IN IF eligible = {} THEN None
       ELSE min(Asc(eligible),
                [p \in Partitions |-> IF sib[p][dest] = Absent THEN 0 ELSE sib[p][dest]])

\* update_sibling_info: every partition of the moved partition's topic has
\* one more sibling on the destination; an absent entry becomes 1.
update_sibling_info(sib, broker, partition) ==
    IF partition = None THEN sib
    ELSE [p \in Partitions |->
            IF TopicOf(p) = TopicOf(partition)
            THEN [sib[p] EXCEPT ![broker] = IF @ = Absent THEN 1 ELSE @ + 1]
            ELSE sib[p]]

\* The search of _get_target_brokers over the pairs (over[i], under[j]):
\* st is the best target so far and its sibling count (min); st.reads lists
\* the entries sibling_info[best_fit_partition][dest] read so far.
SibRead(p, dest, cnt) == [partition |-> p, dest |-> dest, cnt |-> cnt]

RECURSIVE _target_scan(_, _, _, _, _, _, _, _)
RECURSIVE _target_preferred(_, _, _, _, _, _, _, _, _)
RECURSIVE _target_compare(_, _, _, _, _, _, _, _, _, _)
_target_compare(R, D, over, under, sib, i, j, st, best, cnt) ==
    IF cnt = Absent
    THEN [st EXCEPT !.err = "KeyError",
                    !.reads = Append(@, SibRead(best, under[j], cnt))]
    ELSE IF cnt < st.min \/ st.min = -1
    THEN _target_scan(R, D, over, under, sib,
                      IF cnt = 0 THEN i + 1 ELSE i, IF cnt = 0 THEN 1 ELSE j + 1,
                      [st EXCEPT !.source = over[i], !.dest = under[j],
                                 !.partition = best, !.min = cnt,
                                 !.reads = Append(@, SibRead(best, under[j], cnt))])
    ELSE _target_scan(R, D, over, under, sib, i, j + 1,
                      [st EXCEPT !.reads = Append(@, SibRead(best, under[j], cnt))])

_target_preferred(R, D, over, under, sib, i, j, st, best) ==
    IF best = None THEN _target_scan(R, D, over, under, sib, i, j + 1, st)
    ELSE _target_compare(R, D, over, under, sib, i, j, st, best, sib[best][under[j]])

_target_scan(R, D, over, under, sib, i, j, st) ==
    IF st.err # NoError \/ i > Len(over) THEN st
    ELSE IF j > Len(under) THEN _target_scan(R, D, over, under, sib, i + 1, 1, st)
    ELSE IF len_partitions(R)[over[i]] - len_partitions(R)[under[j]] > 1 \/ over[i] \in D
    THEN _target_preferred(R, D, over, under, sib, i, j, st,
                           get_preferred_partition(R, over[i], under[j], sib))
    ELSE _target_scan(R, D, over, under, sib, i + 1, 1, st)

\* The target found, and the sibling cache once it counts the move.
_target_found(sibling_info, target) ==
    [source |-> target.source, dest |-> target.dest, partition |-> target.partition,
     err |-> target.err, reads |-> target.reads,
     sib |-> IF target.err = NoError
             THEN update_sibling_info(sibling_info, target.dest, target.partition)
             ELSE sibling_info]

\* _get_target_brokers: the (source, destination, partition) to move next.
_get_target_brokers(R, D, over_loaded_brokers, under_loaded_brokers, sibling_info) ==
    _target_found(sibling_info,
        _target_scan(R, D, sorted(over_loaded_brokers, len_partitions(R), TRUE),
                     sorted(under_loaded_brokers, len_partitions(R), FALSE),
                     sibling_info, 1, 1,
                     [source |-> None, dest |-> None, partition |-> None,
                      min |-> -1, err |-> NoError, reads |-> <<>>]))

\* rg_separate without the blacklist: every broker of the group is taken
\* for an active one.
rg_separate_no_blacklist(R, D, g) ==
    LET len == [b \in Brokers |-> Cardinality(partitions(R, b))]
        sep == separate_groups(brokers(g), len, SumOver(brokers(g), len))
    IN [over  |-> sep.over \o SelectSeqBy(Iter(_extract_decommissioned(D, g)),
                                 [b \in Brokers |-> ~empty(R, b)]),
        under |-> sep.under]

\* rg_separate taking the brokers of every group for the group's own.
rg_separate_all_groups(R, D, g) ==
    LET len == [b \in Brokers |-> Cardinality(partitions(R, b))]
        sep == separate_groups(Brokers \ D, len, SumOver(Brokers, len))
    IN [over  |-> sep.over \o SelectSeqBy(Iter(D), [b \in Brokers |-> ~empty(R, b)]),
        under |-> sep.under]

\* The over- and under-loaded brokers of group g: separate_groups over the
\* active brokers, then the non-empty decommissioned brokers as over-loaded.
rg_separate(R, D, g) ==
    LET blacklist == _extract_decommissioned(D, g)
        active_brokers == brokers(g) \ blacklist
        len == [b \in Brokers |-> Cardinality(partitions(R, b))]
        total_partitions == SumOver(brokers(g), len)
        sep == separate_groups(active_brokers, len, total_partitions)
    IN [over  |-> sep.over \o SelectSeqBy(Iter(blacklist),
                                 [b \in Brokers |-> ~empty(R, b)]),
        under |-> sep.under]

\* The loop of rebalance_brokers: while the group has over- and under-loaded
\* brokers, the partition _get_target_brokers picks moves; the loop ends
\* when there is nothing to pick.  sib is the sibling cache, moves the
\* moves made so far.
RECURSIVE _rebalance_brokers_loop(_, _, _, _, _, _, _)
RECURSIVE _rebalance_brokers_target(_, _, _, _, _, _)
RECURSIVE _rebalance_brokers_moved(_, _, _, _, _, _)
_rebalance_brokers_moved(R2, D, g, t, moves, fuel) ==
    _rebalance_brokers_loop(R2, D, g, t.sib, rg_separate(R2, D, g),
                            Append(moves, Move(t.partition, t.source, t.dest)), fuel - 1)

_rebalance_brokers_target(R1, D, g, t, moves, fuel) ==
    IF t.err # NoError
    THEN [R |-> R1, err |-> t.err, moves |-> moves]
    ELSE IF t.source # None /\ t.dest # None
    THEN _rebalance_brokers_moved(move_partition(R1, t.partition, t.source, t.dest),
                                  D, g, t, moves, fuel)
    ELSE [R |-> R1, err |-> NoError, moves |-> moves]

_rebalance_brokers_loop(R1, D, g, sib, sep, moves, fuel) ==
    IF sep.under = <<>> \/ sep.over = <<>>
    THEN [R |-> R1, err |-> NoError, moves |-> moves]
    ELSE IF fuel = 0
    THEN [R |-> R1, err |-> "NoTermination", moves |-> moves]
    ELSE _rebalance_brokers_target(R1, D, g,
             _get_target_brokers(R1, D, sep.over, sep.under, sib), moves, fuel)

_rebalance_brokers_from(R, D, g, sep) ==
    _rebalance_brokers_loop(R, D, g, partitions_sib_info(R, sep.over, sep.under), sep,
                            <<>>, MaxLoop)

\* With no active broker, separate_groups is called on no items and
\* compute_optimum divides by zero buckets.
rg_rebalance_brokers(R, D, g) ==
    IF brokers(g) \subseteq D
    THEN [R |-> R, err |-> "ZeroDivisionError", moves |-> <<>>]
    ELSE _rebalance_brokers_from(R, D, g, rg_separate(R, D, g))

(***************************************************************************)
(* Results of the planner's steps, and their sequencing.                   *)
(***************************************************************************)
Ok(R) == [R |-> R, err |-> NoError, moves |-> <<>>]
Raise(R, e) == [R |-> R, err |-> e, moves |-> <<>>]

\* r, and then the step whose result on r's replica map is r2, unless r
\* raised.
Then(r, r2) ==
    IF r.err # NoError THEN r
    ELSE [R |-> r2.R, err |-> r2.err, moves |-> r.moves \o r2.moves]

Moved(R, p, source, dest) ==
    [R |-> move_partition(R, p, source, dest), err |-> NoError,
     moves |-> <<Move(p, source, dest)>>]

(***************************************************************************)
(* ReplicationGroup: moving a replica to another group.                    *)
(***************************************************************************)
_select_over_loaded_brokers(R, g, victim_partition) ==
    sorted(SelectSeqBy(Iter(brokers(g)),
                       [b \in Brokers |-> victim_partition \in partitions(R, b)]),
           len_partitions(R), TRUE)

\* select_under_loaded_brokers without its test that the broker does not
\* hold the partition.
select_under_loaded_brokers_holding(R, g, victim_partition) ==
    sorted(Iter(brokers(g)), len_partitions(R), FALSE)

select_under_loaded_brokers(R, g, victim_partition) ==
    sorted(SelectSeqBy(Iter(brokers(g)),
                       [b \in Brokers |-> victim_partition \notin partitions(R, b)]),
           len_partitions(R), FALSE)

\* max() of the (broker, topic partition count) pairs; None for max() of
\* nothing, which raises ValueError.
_elect_source_broker(R, over_loaded_brokers, victim_partition) ==
    IF over_loaded_brokers = <<>> THEN None
    ELSE max(over_loaded_brokers,
             [b \in Brokers |-> count_partitions(R, b, TopicOf(victim_partition))])

_elect_dest_broker(R, under_loaded_brokers, victim_partition) ==
    IF under_loaded_brokers = <<>> THEN None
    ELSE min(under_loaded_brokers,
             [b \in Brokers |-> count_partitions(R, b, TopicOf(victim_partition))])

_select_broker_pair(R, g, rg_destination, victim_partition) ==
    [source |-> _elect_source_broker(R,
                    _select_over_loaded_brokers(R, g, victim_partition), victim_partition),
     dest   |-> _elect_dest_broker(R,
                    select_under_loaded_brokers(R, rg_destination, victim_partition),
                    victim_partition)]

\* ReplicationGroup.move_partition(rg_destination, victim_partition)
rg_move_partition(R, g, rg_destination, victim_partition) ==
    LET pair == _select_broker_pair(R, g, rg_destination, victim_partition)
    IN IF pair.source = None \/ pair.dest = None THEN Raise(R, "ValueError")
       ELSE Moved(R, victim_partition, pair.source, pair.dest)

\* max(over_brokers) and min(under_brokers) by partition count; None for
\* max() or min() of nothing, which raises ValueError.
_get_eligible_broker_pair(R, g, under_loaded_rg, eligible_partition) ==
    LET under_brokers == SelectSeqBy(Iter(brokers(under_loaded_rg)),
                             [b \in Brokers |-> eligible_partition \notin partitions(R, b)])
        over_brokers == SelectSeqBy(Iter(brokers(g)),
                             [b \in Brokers |-> eligible_partition \in partitions(R, b)])
    IN [source |-> IF over_brokers = <<>> THEN None
                   ELSE max(over_brokers, len_partitions(R)),
        dest   |-> IF under_brokers = <<>> THEN None
                   ELSE min(under_brokers, len_partitions(R))]

move_partition_replica(R, g, under_loaded_rg, eligible_partition) ==
    LET pair == _get_eligible_broker_pair(R, g, under_loaded_rg, eligible_partition)
    IN IF pair.source = None \/ pair.dest = None THEN Raise(R, "ValueError")
       ELSE Moved(R, eligible_partition, pair.source, pair.dest)

\* ReplicationGroup.acquire_partition(partition, source_broker): group g takes
\* the replica of partition from source_broker, or is not eligible.
acquire_partition(R, g, partition, source_broker) ==
    LET under == select_under_loaded_brokers(R, g, partition)
    IN IF under = <<>> THEN Raise(R, "NotEligibleGroupError")
       ELSE Moved(R, partition, source_broker, _elect_dest_broker(R, under, partition))

(***************************************************************************)
(* PartitionCountBalancer: the replication-group passes.                   *)
(***************************************************************************)
\* rebalance_replicas: for each partition, its replicas are spread over the
\* groups, one move at a time from an over- to an under-replicated group.
_replica_counts(R, partition) == [g \in Groups |-> count_replica(R, g, partition)]

RECURSIVE _rebalance_partition_loop(_, _, _)
RECURSIVE _rebalance_partition_counted(_, _, _, _)
RECURSIVE _rebalance_partition_separated(_, _, _, _, _)
_rebalance_partition_separated(partition, r, fuel, cnt, sep) ==
    IF r.err # NoError \/ sep.over = <<>> \/ sep.under = <<>> THEN r
    ELSE IF fuel = 0 THEN [r EXCEPT !.err = "NoTermination"]
    ELSE _rebalance_partition_loop(partition,
             Then(r, rg_move_partition(r.R, max(Asc(Range(sep.over)), cnt),
                                       min(Asc(Range(sep.under)), cnt), partition)),
             fuel - 1)

_rebalance_partition_counted(partition, r, fuel, cnt) ==
    _rebalance_partition_separated(partition, r, fuel, cnt,
        separate_groups(Groups, cnt, Len(r.R[partition])))

_rebalance_partition_loop(partition, r, fuel) ==
    _rebalance_partition_counted(partition, r, fuel, _replica_counts(r.R, partition))

_rebalance_partition_replicas(R, partition) ==
    _rebalance_partition_loop(partition, Ok(R), MaxLoop)

RECURSIVE _rebalance_replicas_each(_, _, _)
_rebalance_replicas_each(ps, i, r) ==
    IF r.err # NoError \/ i > Len(ps) THEN r
    ELSE _rebalance_replicas_each(ps, i + 1,
             Then(r, _rebalance_partition_replicas(r.R, ps[i])))

rebalance_replicas(R) == _rebalance_replicas_each(Iter(Partitions), 1, Ok(R))

\* len(rg.partitions) of every group.
_group_totals(R) == [g \in Groups |-> rg_partition_count(R, g)]

\* _eligible_partitions taking every partition of group o for eligible.
_eligible_partitions_all(R, o, u) == Iter(rg_partitions(R, o))

\* The partitions group o may hand to group u: o holds more replicas of
\* them than its share, u does not hold more than its share.
_eligible_partitions(R, o, u) ==
    Iter({p \in rg_partitions(R, o) :
            /\ count_replica(R, o, p) > Len(R[p]) \div Cardinality(Groups)
            /\ count_replica(R, u, p) <= Len(R[p]) \div Cardinality(Groups)})

\* The loop over the eligible partitions elig[k..] of the pair (o, u).
RECURSIVE _move_eligible(_, _, _, _, _, _)
RECURSIVE _moved_eligible(_, _, _, _, _, _)
_moved_eligible(o, u, elig, k, opt_partition_cnt, r2) ==
    IF \/ r2.err # NoError
       \/ rg_partition_count(r2.R, u) = opt_partition_cnt
       \/ rg_partition_count(r2.R, o) = opt_partition_cnt
    THEN r2
    ELSE _move_eligible(o, u, elig, k + 1, opt_partition_cnt, r2)

_move_eligible(o, u, elig, k, opt_partition_cnt, r) ==
    IF r.err # NoError \/ k > Len(elig) THEN r
    ELSE IF rg_partition_count(r.R, o) - rg_partition_count(r.R, u) > 1
    THEN _moved_eligible(o, u, elig, k, opt_partition_cnt,
                         Then(r, move_partition_replica(r.R, o, u, elig[k])))
    ELSE r

\* The loop over the under-loaded groups under[j..] for over[i].
RECURSIVE _each_under_loaded(_, _, _, _, _, _)
RECURSIVE _after_under_loaded(_, _, _, _, _, _)
_after_under_loaded(over, under, i, j, opt_partition_cnt, r2) ==
    IF r2.err # NoError \/ rg_partition_count(r2.R, over[i]) = opt_partition_cnt
    THEN r2
    ELSE _each_under_loaded(over, under, i, j + 1, opt_partition_cnt, r2)

_each_under_loaded(over, under, i, j, opt_partition_cnt, r) ==
    IF r.err # NoError \/ j > Len(under) THEN r
    ELSE _after_under_loaded(over, under, i, j, opt_partition_cnt,
             _move_eligible(over[i], under[j],
                            _eligible_partitions(r.R, over[i], under[j]), 1,
                            opt_partition_cnt, r))

\* The loop over the over-loaded groups over[i..].
RECURSIVE _each_over_loaded(_, _, _, _, _)
_each_over_loaded(over, under, i, opt_partition_cnt, r) ==
    IF r.err # NoError \/ i > Len(over) THEN r
    ELSE _each_over_loaded(over, under, i + 1, opt_partition_cnt,
             _each_under_loaded(over, under, i, 1, opt_partition_cnt, r))

_rebalance_groups_separated(R, sep, total_elements) ==
    IF sep.over # <<>> /\ sep.under # <<>>
    THEN _each_over_loaded(sep.over, sep.under, 1,
                           compute_optimum(Cardinality(Groups), total_elements).opt, Ok(R))
    ELSE Ok(R)

_rebalance_groups_totalled(R, total_elements) ==
    _rebalance_groups_separated(R, separate_groups(Groups, _group_totals(R), total_elements),
                                total_elements)

_rebalance_groups_partition_cnt(R) ==
    _rebalance_groups_totalled(R, SumOver(Groups, _group_totals(R)))

\* The group totals are balanced once every partition's replicas are spread.
_rebalance_groups_after(r) == Then(r, _rebalance_groups_partition_cnt(r.R))

\* rebalance_replication_groups without its test for inactive brokers.
rebalance_replication_groups_unchecked(R, I) ==
    _rebalance_groups_after(rebalance_replicas(R))

rebalance_replication_groups(R, I) ==
    IF I # {} THEN Raise(R, "RebalanceError")
    ELSE _rebalance_groups_after(rebalance_replicas(R))

\* PartitionCountBalancer.rebalance_brokers: every group in turn.
RECURSIVE _rebalance_brokers_each(_, _, _, _)
_rebalance_brokers_each(gs, i, D, r) ==
    IF r.err # NoError \/ i > Len(gs) THEN r
    ELSE _rebalance_brokers_each(gs, i + 1, D,
             Then(r, rg_rebalance_brokers(r.R, D, gs[i])))

rebalance_brokers(R, D) == _rebalance_brokers_each(Iter(Groups), 1, D, Ok(R))

\* _force_broker_decommission offering a partition to the groups in
\* descending order of their replica count.
_force_broker_decommission_descending(R, broker) ==
    LET available_groups == SelectSeqBy(Iter(Groups), [g \in Groups |-> g # rgOf[broker]])
        ps == Iter(partitions(R, broker))
        RECURSIVE Offer(_, _, _, _)
        Offer(r, partition, groups, k) ==
            IF k > Len(groups) THEN r
            ELSE LET a == acquire_partition(r.R, groups[k], partition, broker)
                 IN IF a.err = "NotEligibleGroupError"
                    THEN Offer(r, partition, groups, k + 1)
                    ELSE Then(r, a)
        RECURSIVE Each(_, _)
        Each(i, r) ==
            IF r.err # NoError \/ i > Len(ps) THEN r
            ELSE Each(i + 1,
                      Offer(r, ps[i],
                            sorted(available_groups,
                                   [g \in Groups |-> count_replica(r.R, g, ps[i])], TRUE),
                            1))
    IN Each(1, Ok(R))

(***************************************************************************)
(* PartitionCountBalancer.decommission_brokers.                            *)
(***************************************************************************)
_force_broker_decommission(R, broker) ==
    LET available_groups == SelectSeqBy(Iter(Groups), [g \in Groups |-> g # rgOf[broker]])
        ps == Iter(partitions(R, broker))
        RECURSIVE Offer(_, _, _, _)
        Offer(r, partition, groups, k) ==
            IF k > Len(groups) THEN r
            ELSE LET a == acquire_partition(r.R, groups[k], partition, broker)
                 IN IF a.err = "NotEligibleGroupError"
                    THEN Offer(r, partition, groups, k + 1)
                    ELSE Then(r, a)
        RECURSIVE Each(_, _)
        Each(i, r) ==
            IF r.err # NoError \/ i > Len(ps) THEN r
            ELSE Each(i + 1,
                      Offer(r, ps[i],
                            sorted(available_groups,
                                   [g \in Groups |-> count_replica(r.R, g, ps[i])], FALSE),
                            1))
    IN Each(1, Ok(R))

\* The forced decommission of one broker failed if the broker still holds
\* a partition.
_force_checked(f, broker) ==
    IF f.err = NoError /\ ~empty(f.R, broker)
    THEN [f EXCEPT !.err = "BrokerDecommissionError"]
    ELSE f

\* The brokers bs[i..] of the group: each one that is decommissioned and
\* still holds partitions is emptied by force.
RECURSIVE _force_remaining(_, _, _, _)
_force_remaining(bs, i, D, r) ==
    IF r.err # NoError \/ i > Len(bs) THEN r
    ELSE IF bs[i] \in D /\ ~empty(r.R, bs[i])
    THEN _force_remaining(bs, i + 1, D,
             _force_checked(Then(r, _force_broker_decommission(r.R, bs[i])), bs[i]))
    ELSE _force_remaining(bs, i + 1, D, r)

\* except EmptyReplicationGroupError: the warning is logged and the step
\* goes on; any other error leaves the step.
_balanced_or_skipped(R, balanced) ==
    IF balanced.err = "EmptyReplicationGroupError" THEN Ok(R) ELSE balanced

_decommission_brokers_in_group(R, D, group) ==
    _force_remaining(Iter(brokers(group)), 1, D,
                     _balanced_or_skipped(R, rg_rebalance_brokers(R, D, group)))

\* The loop marking broker_ids[i..] decommissioned and collecting their groups.
RECURSIVE _mark_decommissioned(_, _, _, _)
_mark_decommissioned(broker_ids, i, D1, groups) ==
    IF i > Len(broker_ids) THEN [D |-> D1, groups |-> groups, err |-> NoError]
    ELSE IF broker_ids[i] \notin Brokers
    THEN [D |-> D1, groups |-> groups, err |-> "InvalidBrokerIdError"]
    ELSE _mark_decommissioned(broker_ids, i + 1, D1 \cup {broker_ids[i]},
                              groups \cup {rgOf[broker_ids[i]]})

\* The loop over the groups gs[i..] that hold a marked broker.
RECURSIVE _decommission_groups(_, _, _, _)
_decommission_groups(gs, i, D, r) ==
    IF r.err # NoError \/ i > Len(gs) THEN r
    ELSE _decommission_groups(gs, i + 1, D,
             Then(r, _decommission_brokers_in_group(r.R, D, gs[i])))

_decommission_marked(R, marked) ==
    IF marked.err # NoError THEN Raise(R, marked.err)
    ELSE _decommission_groups(Iter(marked.groups), 1, marked.D, Ok(R))

\* A result that also carries D, the brokers marked decommissioned.
WithMarked(done, marked) ==
    [R |-> done.R, D |-> marked.D, err |-> done.err, moves |-> done.moves]

_decommission_with(R, marked) == WithMarked(_decommission_marked(R, marked), marked)

decommission_brokers(R, D, broker_ids) ==
    _decommission_with(R, _mark_decommissioned(broker_ids, 1, D, {}))

(***************************************************************************)
(* Leadership rebalance.  The search state st is [R, sb, sp]: the replica  *)
(* map, skip_brokers and skip_partitions (used_edges in the push phase).   *)
(***************************************************************************)
leader(R, p) == R[p][1]

\* Broker.request_leadership(opt_count, skip_brokers, skip_partitions)
RECURSIVE request_leadership(_, _, _)
request_leadership(b, opt_count, st) ==
    LET owned_partitions ==
            SelectSeqBy(Iter(partitions(st.R, b)),
                        [p \in Partitions |-> leader(st.R, p) # b /\ Len(st.R[p]) > 1])
        RECURSIVE Each(_, _)
        Each(i, s) ==
            IF i > Len(owned_partitions) THEN s
            ELSE LET p == owned_partitions[i]
                     prev_leader == leader(s.R, p)
                     s1 == [R |-> swap_leader(s.R, p, b), sb |-> s.sb, sp |-> Append(s.sp, p)]
                     s2 == request_leadership(prev_leader, opt_count,
                                              [s1 EXCEPT !.sb = Append(@, prev_leader)])
                     s3 == [s2 EXCEPT !.sp = Append(@, p), !.sb = RemoveFirst(@, prev_leader)]
                 IN IF prev_leader \in Range(s.sb) \/ p \in Range(s.sp) THEN Each(i + 1, s)
                    ELSE IF count_preferred_replica(s1.R, prev_leader) >= opt_count
                    THEN IF count_preferred_replica(s1.R, b) >= opt_count THEN s1
                         ELSE Each(i + 1, s1)
                    ELSE IF count_preferred_replica(s2.R, prev_leader) < opt_count
                    THEN Each(i + 1, [R |-> swap_leader(s2.R, p, prev_leader),
                                      sb |-> s2.sb, sp |-> RemoveFirst(s2.sp, p)])
                    ELSE IF count_preferred_replica(s3.R, b) >= opt_count THEN s3
                         ELSE Each(i + 1, s3)
    IN Each(1, st)

\* Broker.donate_leadership(opt_count, skip_brokers, used_edges)
RECURSIVE donate_leadership(_, _, _)
donate_leadership(b, opt_count, st) ==
    LET owned_partitions ==
            SelectSeqBy(Iter(partitions(st.R, b)),
                        [p \in Partitions |-> leader(st.R, p) = b /\ Len(st.R[p]) > 1])
        RECURSIVE Each(_, _)
        RECURSIVE Follower(_, _, _, _)
        Each(i, s) ==
            IF i > Len(owned_partitions) THEN s
            ELSE Follower(i,
                          SelectSeqBy(Tail(s.R[owned_partitions[i]]),
                                      [f \in Brokers |-> f \notin Range(s.sb)]),
                          1, s)
        Follower(i, potential_new_leaders, j, s) ==
            IF j > Len(potential_new_leaders) THEN Each(i + 1, s)
            ELSE LET p == owned_partitions[i]
                     follower == potential_new_leaders[j]
                     s1 == [R |-> swap_leader(s.R, p, follower), sb |-> s.sb,
                            sp |-> Append(s.sp, <<p, follower, b>>)]
                     s2 == donate_leadership(follower, opt_count,
                                             [s1 EXCEPT !.sb = Append(@, follower)])
                     s3 == [s2 EXCEPT !.sp = Append(@, <<p, follower, b>>)]
                     s4 == [s3 EXCEPT !.sb = RemoveFirst(@, follower)]
                 IN IF <<p, b, follower>> \in Range(s.sp)
                    THEN Follower(i, potential_new_leaders, j + 1, s)
                    ELSE IF count_preferred_replica(s1.R, follower) <= opt_count + 1
                    THEN IF count_preferred_replica(s1.R, b) <= opt_count + 1 THEN s1
                         ELSE Each(i + 1, s1)
                    ELSE IF count_preferred_replica(s2.R, follower) > opt_count + 1
                    THEN Follower(i, potential_new_leaders, j + 1,
                                  [s3 EXCEPT !.R = swap_leader(s3.R, p, b)])
                    ELSE IF count_preferred_replica(s4.R, b) <= opt_count + 1 THEN s4
                         ELSE Each(i + 1, s4)
    IN Each(1, st)

\* A search that has skipped nothing yet.
_search_from(R) == [R |-> R, sb |-> <<>>, sp |-> <<>>]

\* The under-loaded brokers under_brokers[i..] each request leadership.
RECURSIVE _pull_leadership(_, _, _, _)
_pull_leadership(under_brokers, i, opt_cnt, st) ==
    IF i > Len(under_brokers) THEN st
    ELSE _pull_leadership(under_brokers, i + 1, opt_cnt,
             request_leadership(under_brokers[i], opt_cnt,
                                [st EXCEPT !.sb = Append(@, under_brokers[i])]))

\* The over-loaded brokers over_brokers[i..] each donate leadership.
RECURSIVE _push_leadership(_, _, _, _)
_push_leadership(over_brokers, i, opt_cnt, st) ==
    IF i > Len(over_brokers) THEN st
    ELSE _push_leadership(over_brokers, i + 1, opt_cnt,
             donate_leadership(over_brokers[i], opt_cnt,
                               [st EXCEPT !.sb = Append(@, over_brokers[i])]))

_rebalancing_over_loaded(R1, opt_cnt) ==
    _push_leadership(
        SelectSeqBy(Iter(Brokers),
                    [b \in Brokers |-> count_preferred_replica(R1, b) > opt_cnt + 1]),
        1, opt_cnt, _search_from(R1)).R

rebalancing_non_followers(R, opt_cnt) ==
    _rebalancing_over_loaded(
        _pull_leadership(
            SelectSeqBy(Iter(Brokers),
                        [b \in Brokers |-> count_preferred_replica(R, b) < opt_cnt]),
            1, opt_cnt, _search_from(R)).R,
        opt_cnt)

opt_leader_cnt == Cardinality(Partitions) \div Cardinality(Brokers)

rebalance_leaders(R) == Ok(rebalancing_non_followers(R, opt_leader_cnt))

(***************************************************************************)
(* PartitionCountBalancer.rebalance: the passes the options ask for, in    *)
(* the order replication groups, brokers, leaders.                         *)
(***************************************************************************)
groups_pass(R, I, args) ==
    IF args.replication_groups THEN rebalance_replication_groups(R, I) ELSE Ok(R)

brokers_pass(r, D, args) ==
    IF args.brokers THEN Then(r, rebalance_brokers(r.R, D)) ELSE r

leaders_pass(r, args) ==
    IF args.leaders THEN Then(r, rebalance_leaders(r.R)) ELSE r

\* rebalance running the broker pass whenever the leader pass is asked for.
rebalance_brokers_with_leaders(R, D, I, args) ==
    IF args.max_movement_size # None THEN Raise(R, "SystemExit")
    ELSE leaders_pass(brokers_pass(groups_pass(R, I, args), D,
                                   [args EXCEPT !.brokers = @ \/ args.leaders]),
                      args)

rebalance(R, D, I, args) ==
    IF args.max_movement_size # None THEN Raise(R, "SystemExit")
    ELSE leaders_pass(brokers_pass(groups_pass(R, I, args), D, args), args)

(***************************************************************************)
(* PartitionCountBalancer.add_replica and remove_replica.                  *)
(***************************************************************************)
\* ReplicationGroup.add_replica(partition): the broker of g with the fewest
\* partitions among those not holding the partition joins its replica list.
rg_add_replica(R, g, partition) ==
    LET free == SelectSeqBy(Asc(brokers(g)),
                            [b \in Brokers |-> partition \notin partitions(R, b)])
    IN IF free = <<>> THEN Raise(R, "ValueError")
       ELSE Ok([R EXCEPT ![partition] = Append(@, min(free, len_partitions(R)))])

\* rg_remove_replica taking any out-of-sync broker of the group for a
\* replica of the partition.
rg_remove_replica_any_osr(R, g, partition, osr_in_rg) ==
    IF osr_in_rg # <<>>
    THEN Ok([R EXCEPT ![partition] = RemoveFirst(@, max(osr_in_rg, len_partitions(R)))])
    ELSE Raise(R, "ValueError")

\* ReplicationGroup.remove_replica(partition, osr_brokers): an out-of-sync
\* replica of g if there is one, else the holder with the most partitions,
\* leaves the replica list.
rg_remove_replica(R, g, partition, osr_in_rg) ==
    LET holders == SelectSeqBy(Asc(brokers(g)),
                               [b \in Brokers |-> partition \in partitions(R, b)])
        osr_holders == SelectSeqBy(holders, [b \in Brokers |-> b \in Range(osr_in_rg)])
        candidates == IF osr_holders # <<>> THEN osr_holders ELSE holders
    IN IF holders = <<>> THEN Raise(R, "ValueError")
       ELSE Ok([R EXCEPT ![partition] =
                    RemoveFirst(@, max(candidates, len_partitions(R)))])

add_replica(R, partition_name, count) ==
    LET partition == partition_name
        full(R1, g) == count_replica(R1, g, partition) >= Cardinality(brokers(g))
        RECURSIVE Each(_, _, _)
        Each(k, non_full_rgs, r) ==
            IF r.err # NoError \/ k > count THEN r
            ELSE IF non_full_rgs = <<>> THEN [r EXCEPT !.err = "ZeroDivisionError"]
            ELSE LET cnt == [g \in Groups |-> count_replica(r.R, g, partition)]
                     total_replicas == SumOver(Range(non_full_rgs), cnt)
                     opt_replicas == compute_optimum(Len(non_full_rgs), total_replicas).opt
                     under_replicated_rgs ==
                         SelectSeqBy(non_full_rgs, [g \in Groups |-> cnt[g] < opt_replicas])
                     candidate_rgs == IF under_replicated_rgs # <<>>
                                      THEN under_replicated_rgs ELSE non_full_rgs
                     rg == min(candidate_rgs, [g \in Groups |-> rg_partition_count(r.R, g)])
                     r2 == Then(r, rg_add_replica(r.R, rg, partition))
                 IN Each(k + 1,
                         IF r2.err = NoError /\ full(r2.R, rg)
                         THEN RemoveFirst(non_full_rgs, rg) ELSE non_full_rgs,
                         r2)
    IN IF partition_name \notin Partitions THEN Raise(R, "InvalidPartitionError")
       ELSE IF Len(R[partition]) + count > Cardinality(Brokers)
       THEN Raise(R, "InvalidReplicationFactorError")
       ELSE Each(1, SelectSeqBy(Iter(Groups), [g \in Groups |-> ~full(R, g)]), Ok(R))

\* The groups of rgs holding more replicas of the partition than their
\* share; rgs is not empty.
_over_replicated_rgs(rgs, cnt) ==
    SelectSeqBy(rgs, [g \in Groups |->
        cnt[g] > compute_optimum(Len(rgs), SumOver(Range(rgs), cnt)).opt])

\* selected, or all when nothing is selected.
_or_all(selected, all) == IF selected # <<>> THEN selected ELSE all

\* The loop of remove_replica: the k-th removal of count.
RECURSIVE _remove_each(_, _, _, _, _, _, _)
RECURSIVE _remove_among(_, _, _, _, _, _, _, _)
RECURSIVE _remove_in_rg(_, _, _, _, _, _, _, _)
RECURSIVE _remove_osr_first(_, _, _, _, _, _, _, _, _)
RECURSIVE _removed_in_rg(_, _, _, _, _, _, _, _, _)
_removed_in_rg(partition, count, k, osr, non_empty_rgs, rgs_with_osr, rg, osr_in_rg, r2) ==
    IF r2.err # NoError THEN r2
    ELSE _remove_each(partition, count, k + 1,
             SelectSeqBy(osr, [b \in Brokers |-> b \in Range(r2.R[partition])]),
             IF count_replica(r2.R, rg, partition) = 0
             THEN RemoveFirst(non_empty_rgs, rg) ELSE non_empty_rgs,
             IF rg \in Range(rgs_with_osr) /\ Len(osr_in_rg) = 1
             THEN RemoveFirst(rgs_with_osr, rg) ELSE rgs_with_osr,
             r2)

_remove_osr_first(partition, count, k, osr, non_empty_rgs, rgs_with_osr, r, rg, osr_in_rg) ==
    _removed_in_rg(partition, count, k, osr, non_empty_rgs, rgs_with_osr, rg, osr_in_rg,
                   Then(r, rg_remove_replica(r.R, rg, partition, osr_in_rg)))

_remove_in_rg(partition, count, k, osr, non_empty_rgs, rgs_with_osr, r, rg) ==
    _remove_osr_first(partition, count, k, osr, non_empty_rgs, rgs_with_osr, r, rg,
        SelectSeqBy(Iter(brokers(rg)), [b \in Brokers |-> b \in Range(osr)]))

_remove_among(partition, count, k, osr, non_empty_rgs, rgs_with_osr, r, candidate_rgs) ==
    IF candidate_rgs = <<>> THEN [r EXCEPT !.err = "ZeroDivisionError"]
    ELSE _remove_in_rg(partition, count, k, osr, non_empty_rgs, rgs_with_osr, r,
             max(_or_all(_over_replicated_rgs(candidate_rgs,
                                              _replica_counts(r.R, partition)),
                         candidate_rgs),
                 _group_totals(r.R)))

_remove_each(partition, count, k, osr, non_empty_rgs, rgs_with_osr, r) ==
    IF r.err # NoError \/ k > count THEN r
    ELSE _remove_among(partition, count, k, osr, non_empty_rgs, rgs_with_osr, r,
                       _or_all(rgs_with_osr, non_empty_rgs))

\* The groups holding a replica of the partition, and among them those
\* with an out-of-sync replica.
_non_empty_rgs(R, partition) ==
    SelectSeqBy(Iter(Groups), [g \in Groups |-> count_replica(R, g, partition) > 0])

_rgs_with_osr(rgs, osr_broker_ids) ==
    SelectSeqBy(rgs, [g \in Groups |-> g \in {rgOf[b] : b \in Range(osr_broker_ids)}])

\* remove_replica leaving the leader as the removals left it.
_keep_leader(removed, partition) == removed

\* The replica with the fewest led partitions becomes the leader.
_elect_new_leader(removed, partition) ==
    IF removed.err # NoError THEN removed
    ELSE [removed EXCEPT !.R =
             swap_leader(removed.R, partition,
                         min(removed.R[partition],
                             [b \in Brokers |-> count_preferred_replica(removed.R, b)]))]

\* remove_replica testing the out-of-sync ids after the removals.
remove_replica_tested_late(R, partition_name, osr_broker_ids, count) ==
    IF partition_name \notin Partitions THEN Raise(R, "InvalidPartitionError")
    ELSE IF Len(R[partition_name]) <= count THEN Raise(R, "InvalidReplicationFactorError")
    ELSE LET known == SelectSeq(osr_broker_ids, LAMBDA b : b \in Brokers)
             done == _elect_new_leader(
                         _remove_each(partition_name, count, 1, known,
                                      _non_empty_rgs(R, partition_name),
                                      _rgs_with_osr(_non_empty_rgs(R, partition_name), known),
                                      Ok(R)),
                         partition_name)
         IN IF known # osr_broker_ids
            THEN [done EXCEPT !.err = "InvalidBrokerIdError"] ELSE done

remove_replica(R, partition_name, osr_broker_ids, count) ==
    IF partition_name \notin Partitions THEN Raise(R, "InvalidPartitionError")
    ELSE IF Len(R[partition_name]) <= count THEN Raise(R, "InvalidReplicationFactorError")
    ELSE IF \E i \in 1..Len(osr_broker_ids) : osr_broker_ids[i] \notin Brokers
    THEN Raise(R, "InvalidBrokerIdError")
    ELSE _elect_new_leader(
             _remove_each(partition_name, count, 1, osr_broker_ids,
                          _non_empty_rgs(R, partition_name),
                          _rgs_with_osr(_non_empty_rgs(R, partition_name), osr_broker_ids),
                          Ok(R)),
             partition_name)


(***************************************************************************)
(* The topologies the loader builds, and the callers' inputs.              *)
(***************************************************************************)
\* nb brokers in ng groups: every group has a broker.
LayoutsOf(nb, ng) ==
    {f \in [1..nb -> 1..ng] :
        /\ \A g \in 1..ng : \E b \in 1..nb : f[b] = g
        /\ \A a, b \in 1..nb : a < b => f[a] <= f[b]}

RECURSIVE DistinctSeqs(_, _)
DistinctSeqs(S, n) ==
    IF n = 0 THEN {<<>>}
    ELSE {Append(s, b) : s \in DistinctSeqs(S, n - 1), b \in S} \ 
         {Append(s, s[i]) : s \in DistinctSeqs(S, n - 1), i \in 1..(n - 1)}

\* Replica lists of 1..MaxRF distinct brokers; first = preferred leader.
ReplicaLists(nb) == UNION {DistinctSeqs(1..nb, n) : n \in 1..MaxRF}

\* Those whose followers are listed by broker id.
ListedById(nb) ==
    {s \in ReplicaLists(nb) : \A i, j \in 2..Len(s) : i < j => s[i] < s[j]}

\* Those wholly listed by broker id.
SortedLists(nb) ==
    {s \in ReplicaLists(nb) : \A i, j \in 1..Len(s) : i < j => s[i] < s[j]}

Fresh(obs) ==
    /\ observed = obs
    /\ op = [name |-> "init", args |-> <<>>]
    /\ outcome = "ok"
    /\ pre = IF obs THEN [R |-> replicas, D |-> decommissioned]
                   ELSE [R |-> <<>>, D |-> {}]
    /\ trace = <<>>
    /\ first = NoRun
    /\ client = NoCall

\* What decommission_brokers is called with: one broker, two brokers, and
\* lists with an id that is no broker before or after a valid one.
IdLists ==
    {<<b>> : b \in Brokers} \cup {<<ab[1], ab[2]>> : ab \in {x \in Brokers \X Brokers : x[1] < x[2]}}

IdListsWithUnknown ==
    {<<NoBroker>>} \cup {<<b, NoBroker>> : b \in Brokers}
                   \cup {<<NoBroker, b>> : b \in Brokers}

RebalanceArgs ==
    [replication_groups : BOOLEAN, brokers : BOOLEAN, leaders : BOOLEAN,
     max_movement_size : {None, 1}]

(***************************************************************************)
(* The top-level calls.                                                    *)
(***************************************************************************)
Returned(name, args, r, D) ==
    /\ replicas' = r.R
    /\ decommissioned' = D
    /\ IF observed
       THEN /\ outcome' = IF r.err = NoError THEN "ok" ELSE r.err
            /\ trace' = r.moves
            /\ op' = [name |-> name, args |-> args]
            /\ pre' = [R |-> replicas, D |-> decommissioned]
       ELSE UNCHANGED <<outcome, trace, op, pre>>
    /\ UNCHANGED <<inactive, rgOf, setOrder, observed, client>>

Return(name, args, r, D) == Returned(name, args, r, D) /\ UNCHANGED first

\* The call returns r and leaves marked the brokers r.D.
ReturnMarked(name, args, r) == Return(name, args, r, r.D)

DecommissionBrokers(ids) ==
    ReturnMarked("decommission_brokers", ids,
                 decommission_brokers(replicas, decommissioned, ids))

Rebalance(args) ==
    Return("rebalance", args, rebalance(replicas, decommissioned, inactive, args),
           decommissioned)

AddReplica(p, k) ==
    Return("add_replica", <<p, k>>, add_replica(replicas, p, k), decommissioned)

RemoveReplica(p, osr, k) ==
    Return("remove_replica", <<p, osr, k>>, remove_replica(replicas, p, osr, k),
           decommissioned)

(***************************************************************************)
(* SpecDecommission: one decommission_brokers call on a loaded topology.   *)
(***************************************************************************)
InitDecommission ==
    /\ rgOf \in LayoutsOf(4, 2)
    /\ replicas \in [1..3 -> SortedLists(4)]
    /\ decommissioned = {}
    /\ inactive = {}
    /\ setOrder \in {"asc", "desc"}
    /\ Fresh(TRUE)

NextDecommission ==
    /\ op.name = "init"
    /\ \E ids \in IdLists \cup IdListsWithUnknown : DecommissionBrokers(ids)

SpecDecommission == InitDecommission /\ [][NextDecommission]_vars

(***************************************************************************)
(* SpecForce: one decommission_brokers call on six brokers in three        *)
(* groups (two, one and three brokers) and two partitions of up to         *)
(* MaxRF + 3 replicas, so that a partition can stay on a decommissioned    *)
(* broker after the rebalance of its group and find another group full.    *)
(***************************************************************************)
WideLists(nb) ==
    {s \in UNION {DistinctSeqs(1..nb, n) : n \in 1..(MaxRF + 3)} :
        \A i, j \in 1..Len(s) : i < j => s[i] < s[j]}

InitForce ==
    /\ rgOf = <<1, 1, 2, 3, 3, 3>>
    /\ replicas \in [1..2 -> WideLists(6)]
    /\ decommissioned = {}
    /\ inactive = {}
    /\ setOrder \in {"asc", "desc"}
    /\ Fresh(TRUE)

NextForce ==
    /\ op.name = "init"
    /\ \E ids \in IdLists : DecommissionBrokers(ids)

SpecForce == InitForce /\ [][NextForce]_vars



(***************************************************************************)
(* SpecGroups: one rebalance call whose options ask for the replication-   *)
(* group pass, on four brokers in two or three groups.                     *)
(***************************************************************************)
InitGroups ==
    /\ rgOf \in LayoutsOf(4, 2) \cup LayoutsOf(4, 3)
    /\ replicas \in [1..3 -> SortedLists(4)]
    /\ decommissioned = {}
    /\ inactive \in {{}, {4}}
    /\ setOrder \in {"asc", "desc"}
    /\ Fresh(TRUE)

NextGroups ==
    /\ op.name = "init"
    /\ \E args \in {a \in RebalanceArgs : a.replication_groups} : Rebalance(args)

SpecGroups == InitGroups /\ [][NextGroups]_vars

(***************************************************************************)
(* SpecBrokers: one rebalance call whose options ask for the broker pass,  *)
(* on four brokers in two groups, broker 1 decommissioned or not.          *)
(***************************************************************************)
InitBrokers ==
    /\ rgOf \in LayoutsOf(4, 2)
    /\ replicas \in [1..3 -> SortedLists(4)]
    /\ decommissioned \in {{}, {1}}
    /\ inactive = {}
    /\ setOrder \in {"asc", "desc"}
    /\ Fresh(TRUE)

NextBrokers ==
    /\ op.name = "init"
    /\ \E args \in {a \in RebalanceArgs : a.brokers} : Rebalance(args)

SpecBrokers == InitBrokers /\ [][NextBrokers]_vars

(***************************************************************************)
(* SpecLeaders: one rebalance call whose options ask for the leader pass   *)
(* alone, on three brokers of one group and three or four partitions,      *)
(* replica lists in any order.  SpecLeadersFour: the same on four brokers  *)
(* and four partitions.                                                    *)
(***************************************************************************)
LeaderArgs ==
    {a \in RebalanceArgs : a.leaders /\ ~a.replication_groups /\ ~a.brokers}

InitLeaders ==
    /\ rgOf \in LayoutsOf(3, 1)
    /\ replicas \in [1..3 -> ReplicaLists(3)] \cup [1..4 -> ReplicaLists(3)]
    /\ decommissioned = {}
    /\ inactive = {}
    /\ setOrder \in {"asc", "desc"}
    /\ Fresh(TRUE)

NextLeaders ==
    /\ op.name = "init"
    /\ \E args \in LeaderArgs : Rebalance(args)

SpecLeaders == InitLeaders /\ [][NextLeaders]_vars

InitLeadersFour ==
    /\ rgOf \in LayoutsOf(4, 1)
    /\ replicas \in [1..4 -> ReplicaLists(4)]
    /\ decommissioned = {}
    /\ inactive = {}
    /\ setOrder \in {"asc", "desc"}
    /\ Fresh(TRUE)

SpecLeadersFour == InitLeadersFour /\ [][NextLeaders]_vars

(***************************************************************************)
(* SpecAdd: one add_replica call on four brokers in three groups, broker 4 *)
(* decommissioned or not.                                                  *)
(***************************************************************************)
\* Replicas one add_replica or remove_replica call adds or removes.
MaxCount == 2

PartitionNames == Partitions \cup {NoPartition}

InitAdd ==
    /\ rgOf \in LayoutsOf(4, 3)
    /\ replicas \in [1..3 -> SortedLists(4)]
    /\ decommissioned \in {{}, {4}}
    /\ inactive = {}
    /\ setOrder \in {"asc", "desc"}
    /\ Fresh(TRUE)

NextAdd ==
    /\ op.name = "init"
    /\ \E p \in PartitionNames, k \in 1..MaxCount : AddReplica(p, k)

SpecAdd == InitAdd /\ [][NextAdd]_vars

(***************************************************************************)
(* SpecRemove: one remove_replica call on four brokers in two groups;      *)
(* partition 1 has up to MaxRF + 1 replicas, as after an add_replica, and  *)
(* the replica lists are in any order.                                     *)
(***************************************************************************)
OsrLists == {<<>>} \cup {<<b>> : b \in Brokers \cup {NoBroker}}

OsrPairs == {<<ab[1], ab[2]>> : ab \in {x \in Brokers \X Brokers : x[1] < x[2]}}

\* Replica lists of a partition that add_replica has grown by one.
GrownLists(nb) == UNION {DistinctSeqs(1..nb, n) : n \in 1..(MaxRF + 1)}

InitRemove ==
    /\ rgOf \in LayoutsOf(4, 2)
    /\ replicas \in {<<a, b>> : a \in GrownLists(4), b \in ReplicaLists(4)}
    /\ decommissioned = {}
    /\ inactive = {}
    /\ setOrder \in {"asc", "desc"}
    /\ Fresh(TRUE)

NextRemove ==
    /\ op.name = "init"
    /\ \E p \in PartitionNames, osr \in OsrLists \cup OsrPairs, k \in 1..MaxCount :
          RemoveReplica(p, osr, k)

SpecRemove == InitRemove /\ [][NextRemove]_vars

(***************************************************************************)
(* SpecGroupsGrown: one rebalance call whose options ask for the           *)
(* replication-group pass, on three brokers in two groups and partitions   *)
(* of up to MaxRF + 1 replicas, so that a partition can have a replica on  *)
(* every broker of a group.                                                *)
(***************************************************************************)
InitGroupsGrown ==
    /\ rgOf \in LayoutsOf(3, 2)
    /\ replicas \in [1..3 -> GrownLists(3)]
    /\ decommissioned = {}
    /\ inactive = {}
    /\ setOrder \in {"asc", "desc"}
    /\ Fresh(TRUE)

NextGroupsGrown ==
    /\ op.name = "init"
    /\ \E args \in {a \in RebalanceArgs : a.replication_groups} : Rebalance(args)

SpecGroupsGrown == InitGroupsGrown /\ [][NextGroupsGrown]_vars

(***************************************************************************)
(* SpecTwoRuns: the tool is run twice on the same input.  The first run    *)
(* makes one call; the second run is a new interpreter, whose sets and     *)
(* dicts iterate in an order of their own, with the topology loaded again  *)
(* from the same input, and makes the same call with the same arguments.   *)
(***************************************************************************)
InitTwoRuns ==
    /\ rgOf \in LayoutsOf(3, 2)
    /\ replicas \in [1..2 -> ReplicaLists(3)]
    /\ decommissioned = {}
    /\ inactive = {}
    /\ setOrder \in {"asc", "desc"}
    /\ Fresh(TRUE)

\* The second run starts: the input of the first run is loaded again.
Reload ==
    /\ op.name # "init" /\ first.op.name = "none"
    /\ first' = [op |-> op, R |-> replicas, D |-> decommissioned,
                 outcome |-> outcome, trace |-> trace]
    /\ replicas' = pre.R
    /\ decommissioned' = pre.D
    /\ setOrder' \in {"asc", "desc"}
    /\ op' = [name |-> "init", args |-> <<>>]
    /\ outcome' = "ok"
    /\ trace' = <<>>
    /\ UNCHANGED <<pre, inactive, rgOf, observed, client>>

\* The call of this run: any call in the first run, the first run's call
\* in the second.
SameCall(name, args) ==
    first.op.name = "none" \/ (first.op.name = name /\ first.op.args = args)

NextTwoRuns ==
    \/ Reload
    \/ /\ op.name = "init"
       /\ \E ids \in IdLists :
             SameCall("decommission_brokers", ids) /\ DecommissionBrokers(ids)
    \/ /\ op.name = "init"
       /\ \E args \in RebalanceArgs : SameCall("rebalance", args) /\ Rebalance(args)
    \/ /\ op.name = "init"
       /\ \E p \in PartitionNames, k \in 1..MaxCount :
             SameCall("add_replica", <<p, k>>) /\ AddReplica(p, k)
    \/ /\ op.name = "init"
       /\ \E p \in PartitionNames, osr \in OsrLists, k \in 1..MaxCount :
             SameCall("remove_replica", <<p, osr, k>>) /\ RemoveReplica(p, osr, k)

SpecTwoRuns == InitTwoRuns /\ [][NextTwoRuns]_vars

(***************************************************************************)
(* SpecTwice: rebalance is called, and after it has returned without an    *)
(* error it is called again with the same options, on the topology the     *)
(* first call left.  Three brokers in two groups, partitions of up to     *)
(* MaxRF + 1 replicas.                                                     *)
(***************************************************************************)
InitTwice ==
    /\ rgOf \in LayoutsOf(3, 2)
    /\ replicas \in [1..3 -> GrownLists(3)]
    /\ decommissioned = {}
    /\ inactive = {}
    /\ setOrder \in {"asc", "desc"}
    /\ Fresh(TRUE)

RebalanceAgain ==
    /\ op.name = "rebalance" /\ outcome = "ok" /\ first.op.name = "none"
    /\ Returned("rebalance", op.args,
                rebalance(replicas, decommissioned, inactive, op.args), decommissioned)
    /\ first' = [op |-> op, R |-> replicas, D |-> decommissioned,
                 outcome |-> outcome, trace |-> trace]

NextTwice ==
    \/ op.name = "init" /\ \E args \in RebalanceArgs : Rebalance(args)
    \/ RebalanceAgain

SpecTwice == InitTwice /\ [][NextTwice]_vars




(***************************************************************************)
(* SpecSiblings: one rebalance call that makes the broker pass only, on    *)
(* one group of three brokers holding five partitions of two topics,       *)
(* broker 1 decommissioned or not.                                         *)
(***************************************************************************)
InitSiblings ==
    /\ rgOf = <<1, 1, 1>>
    /\ replicas \in [1..5 -> SortedLists(3)]
    /\ decommissioned \in {{}, {1}}
    /\ inactive = {}
    /\ setOrder \in {"asc", "desc"}
    /\ Fresh(TRUE)

NextSiblings ==
    /\ op.name = "init"
    /\ \E args \in {a \in RebalanceArgs :
                       a.brokers /\ ~a.replication_groups /\ ~a.leaders} :
          Rebalance(args)

SpecSiblings == InitSiblings /\ [][NextSiblings]_vars

(***************************************************************************)
(* KafkaToolClient.send_offset_commit_request_kafka and its retry          *)
(* decorator.  One attempt is one run of the method's body; what the       *)
(* brokers answer to it is the attempt's input.                            *)
(***************************************************************************)
RETRY_ATTEMPTS == 5

CoordinatorNotAvailable == "ConsumerCoordinatorNotAvailableCode"

\* What one attempt meets: _send_consumer_aware_request raises (sent), or it
\* returns responses whose error, if any, is resp_error.
Answers ==
    [sent : {NoError, CoordinatorNotAvailable, "KafkaUnavailableError"},
     resp_error : {NoError, CoordinatorNotAvailable, "OffsetMetadataTooLargeError"}]

CommitArgs == [group : 1..2, fail_on_error : BOOLEAN, callback : BOOLEAN]

\* Any exception is taken for a coordinator error.
_retry_if_any_exception(exception) == TRUE

\* _retry_if_kafka_consumer_coordination_error: isinstance(exception,
\* ConsumerCoordinatorNotAvailableCode).
_retry_if_kafka_consumer_coordination_error(exception) ==
    exception = CoordinatorNotAvailable

\* The body of send_offset_commit_request_kafka: the request is sent, and
\* with fail_on_error each response is checked for an error, which is
\* raised.  "none" when the body returns its list.
send_offset_commit_request_kafka(args, answer) ==
    IF answer.sent # NoError THEN answer.sent
    ELSE IF args.fail_on_error /\ answer.resp_error # NoError THEN answer.resp_error
    ELSE NoError

\* What the decorator does with the n-th attempt that ended as e: the value
\* is returned, the call is made again, or the exception is raised.
retry(e, n) ==
    IF e = NoError THEN "returned"
    ELSE IF ~_retry_if_kafka_consumer_coordination_error(e) THEN "raised"
    ELSE IF n >= RETRY_ATTEMPTS THEN "raised"
    ELSE "calling"

\* A caller calls send_offset_commit_request_kafka.
SendOffsetCommit(args) ==
    /\ client.status = "idle"
    /\ client' = [NoCall EXCEPT !.status = "calling", !.args = args]
    /\ UNCHANGED <<replicas, decommissioned, inactive, rgOf, setOrder, op, outcome,
                   pre, trace, observed, first>>

\* The next attempt of the call under way: the body runs against answer and
\* the decorator decides on its end.
Attempt(answer) ==
    /\ client.status = "calling"
    /\ client' = [client EXCEPT
          !.attempts = @ + 1,
          !.log = Append(@, send_offset_commit_request_kafka(client.args, answer)),
          !.status = retry(send_offset_commit_request_kafka(client.args, answer),
                           client.attempts + 1),
          !.raised = IF retry(send_offset_commit_request_kafka(client.args, answer),
                              client.attempts + 1) = "raised"
                     THEN send_offset_commit_request_kafka(client.args, answer)
                     ELSE @]
    /\ UNCHANGED <<replicas, decommissioned, inactive, rgOf, setOrder, op, outcome,
                   pre, trace, observed, first>>

(***************************************************************************)
(* SpecClient: offset commit requests of a client, one call at a time,     *)
(* each attempt meeting any answer.                                        *)
(***************************************************************************)
InitClient ==
    /\ rgOf = <<1>>
    /\ replicas = <<<<1>>>>
    /\ decommissioned = {}
    /\ inactive = {}
    /\ setOrder = "asc"
    /\ Fresh(TRUE)

NextClient ==
    \/ \E args \in CommitArgs : SendOffsetCommit(args)
    \/ \E answer \in Answers : Attempt(answer)

SpecClient == InitClient /\ [][NextClient]_vars

(***************************************************************************)
(* Spec: any sequence of top-level calls on a loaded topology.             *)
(***************************************************************************)

Init ==
    /\ rgOf \in LayoutsOf(3, 2)
    /\ replicas \in [1..2 -> ReplicaLists(3)]
    /\ decommissioned = {}
    /\ inactive = {}
    /\ setOrder \in {"asc", "desc"}
    /\ Fresh(FALSE)

Next ==
    \/ \E ids \in IdLists \cup IdListsWithUnknown : DecommissionBrokers(ids)
    \/ \E args \in RebalanceArgs : Rebalance(args)
    \/ \E p \in PartitionNames, k \in 1..MaxCount : AddReplica(p, k)
    \/ \E p \in PartitionNames, osr \in OsrLists, k \in 1..MaxCount :
          RemoveReplica(p, osr, k)

Spec == Init /\ [][Next]_vars

(***************************************************************************)
(* Claims about decommission_brokers.                                      *)
(***************************************************************************)
Named == IF op.name = "decommission_brokers" THEN Range(op.args) ELSE {}
DecommissionOfValidIds == op.name = "decommission_brokers" /\ Named \subseteq Brokers

\* C3: decommission_brokers with valid ids either returns with every named
\* broker empty, or raises BrokerDecommissionError with a decommissioned
\* broker still holding a partition; it has no third outcome.
C3_DecommissionTwoOutcomes ==
    DecommissionOfValidIds =>
        \/ outcome = "ok" /\ \A b \in Named : empty(replicas, b)
        \/ /\ outcome = "BrokerDecommissionError"
           /\ \E b \in decommissioned : ~empty(replicas, b)

\* C4: decommission_brokers with an id that is no broker raises
\* InvalidBrokerIdError and has marked no broker and moved no replica.
C4_DecommissionAllOrNothing ==
    (op.name = "decommission_brokers" /\ ~(Named \subseteq Brokers)) =>
        /\ outcome = "InvalidBrokerIdError"
        /\ decommissioned = pre.D
        /\ replicas = pre.R

\* C5: after a successful decommission_brokers every broker not named in
\* ids holds a superset of the partitions it held before.
C5_OthersOnlyGain ==
    (DecommissionOfValidIds /\ outcome = "ok") =>
        \A b \in Brokers \ Named : partitions(pre.R, b) \subseteq partitions(replicas, b)

ActiveReplicas(R, g, p) ==
    Cardinality({b \in brokers(g) \ decommissioned : p \in partitions(R, b)})

\* C5, amended: after a successful decommission_brokers the brokers of a
\* group that are not decommissioned hold, of every partition, at least as
\* many replicas as they held before; a replica leaves such a broker only
\* for another such broker of its group.
C5_ActiveBrokersKeepPerGroup ==
    (DecommissionOfValidIds /\ outcome = "ok") =>
        /\ \A g \in Groups, p \in Partitions :
               ActiveReplicas(pre.R, g, p) <= ActiveReplicas(replicas, g, p)
        /\ \A i \in 1..Len(trace) :
               trace[i].from \notin decommissioned =>
                  /\ trace[i].to \notin decommissioned
                  /\ rgOf[trace[i].to] = rgOf[trace[i].from]

\* A successful decommission in which the intra-group rebalance took a
\* replica from a broker that is not decommissioned.
C5_Witness_ActiveBrokerGave ==
    /\ DecommissionOfValidIds /\ outcome = "ok"
    /\ \E i \in 1..Len(trace) : trace[i].from \notin decommissioned


(***************************************************************************)
(* Claims about rebalance.                                                 *)
(***************************************************************************)
Rebalanced(pass) ==
    /\ op.name = "rebalance" /\ outcome = "ok"
    /\ op.args[pass]

AbsDiff(m, n) == IF m < n THEN n - m ELSE m - n

\* C6: after rebalance with replication_groups has completed, no partition
\* has two more replicas in one replication group than in another.
C6_ReplicasSpreadOverGroups ==
    Rebalanced("replication_groups") =>
        \A p \in Partitions, g1, g2 \in Groups :
            AbsDiff(count_replica(replicas, g1, p), count_replica(replicas, g2, p)) <= 1

\* C7: after rebalance with replication_groups has completed, no
\* replication group holds two more replicas than another.
C7_GroupTotalsBalanced ==
    Rebalanced("replication_groups") =>
        \A g1, g2 \in Groups :
            AbsDiff(rg_partition_count(replicas, g1), rg_partition_count(replicas, g2)) <= 1

\* C8: after rebalance with brokers has completed, two brokers of one
\* replication group that are not decommissioned hold partition counts
\* that differ by at most one, unless the fuller one holds no partition
\* that the other does not hold.
C8_BrokersBalancedInGroup ==
    Rebalanced("brokers") =>
        \A g \in Groups : \A b1, b2 \in brokers(g) \ decommissioned :
            \/ Cardinality(partitions(replicas, b1))
                  <= Cardinality(partitions(replicas, b2)) + 1
            \/ partitions(replicas, b1) \subseteq partitions(replicas, b2)

\* x -> y when y leads a partition that x follows: x can take a leadership
\* from y.  Reach(E, x) is the set of brokers a chain of such steps reaches.
TakesFrom(R) ==
    {xy \in Brokers \X Brokers :
        xy[1] # xy[2] /\ \E p \in Partitions :
            leader(R, p) = xy[2] /\ xy[1] \in Range(Tail(R[p]))}

GivesTo(R) == {<<xy[2], xy[1]>> : xy \in TakesFrom(R)}

Reach(E, x) ==
    LET RECURSIVE Grow(_)
        Grow(S) == LET T == S \cup {y \in Brokers : \E z \in S : <<z, y>> \in E}
                   IN IF T = S THEN S ELSE Grow(T)
    IN Grow({x}) \ {x}

BrokersPassAlone ==
    /\ op.name = "rebalance" /\ op.args.max_movement_size = None
    /\ op.args.brokers /\ ~op.args.replication_groups

\* C11: the broker pass moves no replica to another replication group: every
\* move it makes is between two brokers of one group, and every group holds
\* as many replicas of every partition after the pass as before it, however
\* the pass ends.
C11_BrokerPassStaysInGroup ==
    BrokersPassAlone =>
        /\ \A i \in 1..Len(trace) : rgOf[trace[i].from] = rgOf[trace[i].to]
        /\ \A g \in Groups, p \in Partitions :
              count_replica(replicas, g, p) = count_replica(pre.R, g, p)

\* A broker pass that moved a replica in a cluster of several groups.
C11_Witness_MovedInGroup ==
    /\ BrokersPassAlone /\ outcome = "ok"
    /\ trace # <<>>
    /\ Cardinality(Groups) > 1

GroupsPassWithInactive ==
    /\ op.name = "rebalance" /\ op.args.max_movement_size = None
    /\ op.args.replication_groups
    /\ inactive # {}

\* C12: rebalance asked for the replication-group pass while a broker is
\* flagged inactive raises RebalanceError with no replica moved and no
\* leader changed; the broker and leader passes of the same call do not run.
C12_InactiveBrokerRefusesRebalance ==
    GroupsPassWithInactive =>
        /\ outcome = "RebalanceError"
        /\ replicas = pre.R
        /\ trace = <<>>

\* Such a call that also asked for the broker and leader passes, on a
\* topology where the replication-group pass alone would have moved a replica.
C12_Witness_RefusedWithOtherPasses ==
    /\ GroupsPassWithInactive
    /\ op.args.brokers /\ op.args.leaders
    /\ outcome = "RebalanceError"
    /\ rebalance_replication_groups(pre.R, {}).moves # <<>>

\* C9: after rebalance with leaders has completed, a broker leads fewer
\* than opt partitions only if no chain of leader swaps brings it a
\* leadership from a broker that leads more than opt, and leads more than
\* opt + 1 only if no chain takes one to a broker that leads at most opt.
C9_LeadersBalancedUnlessNoChain ==
    Rebalanced("leaders") =>
        \A b \in Brokers :
            /\ count_preferred_replica(replicas, b) < opt_leader_cnt =>
                  \A y \in Reach(TakesFrom(replicas), b) :
                      count_preferred_replica(replicas, y) <= opt_leader_cnt
            /\ count_preferred_replica(replicas, b) > opt_leader_cnt + 1 =>
                  \A y \in Reach(GivesTo(replicas), b) :
                      count_preferred_replica(replicas, y) > opt_leader_cnt

\* C10: rebalance with leaders alone leaves every partition on the same
\* brokers; only the order of its replica list changes.
C10_LeaderPassKeepsReplicaSets ==
    (op.name = "rebalance" /\ op.args.leaders
        /\ ~op.args.replication_groups /\ ~op.args.brokers) =>
        \A p \in Partitions :
            /\ Range(replicas[p]) = Range(pre.R[p])
            /\ Len(replicas[p]) = Len(pre.R[p])

LeadersOnly ==
    /\ op.name = "rebalance" /\ outcome = "ok"
    /\ op.args.leaders /\ ~op.args.replication_groups /\ ~op.args.brokers

\* A leader pass that changed the leader of a partition.
C10_Witness_LeaderChanged ==
    /\ LeadersOnly
    /\ \E p \in Partitions : leader(replicas, p) # leader(pre.R, p)

(***************************************************************************)
(* Claims about every call.                                                *)
(***************************************************************************)
Distinct(s) == \A i, j \in 1..Len(s) : i # j => s[i] # s[j]

C2_DecommissionedNeverGains ==
    [][\A b \in decommissioned :
          partitions(replicas', b) \subseteq partitions(replicas, b)]_vars

(***************************************************************************)
(* Claims about add_replica.                                               *)
(***************************************************************************)
Added == op.name = "add_replica" /\ op.args[1] \in Partitions

\* The brokers that are neither decommissioned nor inactive.
ActiveBrokers == Brokers \ (decommissioned \cup inactive)

\* C13: after a successful add_replica(p, k) the partition has k replicas
\* more, no broker twice, and no broker that was added is decommissioned.
C13_AddedReplicas ==
    (Added /\ outcome = "ok") =>
        LET p == op.args[1]
        IN /\ Len(replicas[p]) = Len(pre.R[p]) + op.args[2]
           /\ Distinct(replicas[p])
           /\ (Range(replicas[p]) \ Range(pre.R[p])) \cap decommissioned = {}

\* C14: add_replica(p, k) raises InvalidReplicationFactorError and changes
\* nothing when the partition would have more replicas than there are active
\* brokers; after add_replica no partition has more replicas than that.
C14_AddWithinActiveBrokers ==
    Added =>
        LET p == op.args[1]
        IN /\ Len(pre.R[p]) + op.args[2] > Cardinality(ActiveBrokers) =>
                 outcome = "InvalidReplicationFactorError" /\ replicas = pre.R
           /\ Len(replicas[p]) <= Cardinality(ActiveBrokers)

\* C15: with three groups and two replicas of p, one in each of two groups,
\* add_replica(p, 1) puts the new replica in the third group.
C15_AddToGroupWithoutReplica ==
    (/\ Added /\ op.args[2] = 1
     /\ Cardinality(Groups) = 3
     /\ Len(pre.R[op.args[1]]) = 2
     /\ \A g \in Groups : count_replica(pre.R, g, op.args[1]) <= 1) =>
        /\ outcome = "ok"
        /\ \A g \in Groups : count_replica(replicas, g, op.args[1]) = 1

(***************************************************************************)
(* Claims about remove_replica.                                            *)
(***************************************************************************)
RemoveCalled == op.name = "remove_replica"
Removed == RemoveCalled /\ outcome = "ok"

\* C16: after a successful remove_replica(p, osr_ids, k) the partition has k
\* replicas fewer and every broker left on its list was on it before.
C16_RemovedReplicas ==
    Removed =>
        LET p == op.args[1]
        IN /\ Len(replicas[p]) = Len(pre.R[p]) - op.args[3]
           /\ Range(replicas[p]) \subseteq Range(pre.R[p])
           /\ Distinct(replicas[p])

\* Two replicas removed in a call whose osr_ids names a broker that does not
\* replicate the partition.
C16_Witness_OsrNotReplica ==
    /\ Removed /\ op.args[3] = 2
    /\ \E i \in 1..Len(op.args[2]) : op.args[2][i] \notin Range(pre.R[op.args[1]])

\* C17: remove_replica raises InvalidPartitionError for an unknown partition,
\* else InvalidReplicationFactorError when the partition has no more than k
\* replicas, else InvalidBrokerIdError when osr_ids names no broker; in each
\* case no replica list has changed.
C17_RemoveRaisesBeforeMutation ==
    RemoveCalled =>
        LET p == op.args[1]
            unknown == p \notin Partitions
            few == ~unknown /\ Len(pre.R[p]) <= op.args[3]
            bad == \E i \in 1..Len(op.args[2]) : op.args[2][i] \notin Brokers
        IN /\ unknown => outcome = "InvalidPartitionError"
           /\ few => outcome = "InvalidReplicationFactorError"
           /\ (~unknown /\ ~few /\ bad) => outcome = "InvalidBrokerIdError"
           /\ (unknown \/ few \/ bad) => replicas = pre.R /\ trace = <<>>

\* A call refused for an id that is no broker, on a partition that had
\* replicas enough.
C17_Witness_UnknownOsr ==
    /\ RemoveCalled /\ outcome = "InvalidBrokerIdError"
    /\ Len(pre.R[op.args[1]]) > op.args[3]

\* The replica map after the removals of the last call and before the leader
\* is reseated: the brokers left, in the order they had.
AfterRemovals ==
    [replicas EXCEPT ![op.args[1]] =
        SelectSeq(pre.R[op.args[1]], LAMBDA b : b \in Range(replicas[op.args[1]]))]

\* C18: after a successful remove_replica the leader of the partition is a
\* remaining replica that led no more partitions than any other remaining
\* replica when the removals were done.
C18_LeaderLeadsFewest ==
    Removed =>
        LET p == op.args[1]
        IN \A b \in Range(replicas[p]) :
              count_preferred_replica(AfterRemovals, leader(replicas, p))
                  <= count_preferred_replica(AfterRemovals, b)

\* The leader was not removed and yet another replica has become the leader.
C18_Witness_LeaderReseated ==
    /\ Removed
    /\ leader(pre.R, op.args[1]) \in Range(replicas[op.args[1]])
    /\ leader(replicas, op.args[1]) # leader(pre.R, op.args[1])

(***************************************************************************)
(* Claims about the replication-group balance loop.                        *)
(***************************************************************************)
\* A rebalance call that ran the replication-group pass and whose
\* per-partition replica balance finished without an error, so that the
\* call went on to the partition-count loop over the groups.
ReachedGroupLoop ==
    /\ op.name = "rebalance" /\ op.args.max_movement_size = None
    /\ op.args.replication_groups
    /\ rebalance_replicas(pre.R).err = NoError

\* C19: when the partition-count loop over the groups picks a partition for
\* which the under-loaded group has no broker without it, the move is
\* skipped without an exception and the loop runs to its end: a call that
\* reached the loop does not end with the error of an empty choice.
C19_NoPairIsSilentSkip ==
    ReachedGroupLoop => outcome # "ValueError"

(***************************************************************************)
(* Claims about two runs on the same input.                                *)
(***************************************************************************)
\* The second run has made its call: the call of the first run, on the
\* input of the first run.
SecondRunDone == first.op.name # "none" /\ op.name = first.op.name

\* C20: two runs of the same call with the same arguments on the same
\* input topology end the same way and leave the same assignment: the same
\* replica lists, each in the same order, and the same brokers marked
\* decommissioned, whatever order the sets and dicts of each run iterate in.
C20_RunsAgree ==
    SecondRunDone =>
        /\ outcome = first.outcome
        /\ replicas = first.R
        /\ decommissioned = first.D

(***************************************************************************)
(* Claims about rebalance called twice.                                    *)
(***************************************************************************)
\* rebalance has been called a second time, right after a first call with
\* the same options that returned without an error.
CalledAgain == op.name = "rebalance" /\ first.op.name = "rebalance"

\* C21: the second of two successive rebalance calls with the same options
\* moves no replica and changes no preferred leader: every partition has
\* after the call the brokers and the first broker it had before it.
C21_RebalanceIdempotent ==
    CalledAgain =>
        \A p \in Partitions :
            /\ Range(replicas[p]) = Range(pre.R[p])
            /\ replicas[p][1] = pre.R[p][1]

(***************************************************************************)
(* Claims about the options of rebalance.                                  *)
(***************************************************************************)
\* The errors of the error module that the balancer raises to its caller.
TypedErrors ==
    {"BrokerDecommissionError", "EmptyReplicationGroupError", "InvalidBrokerIdError",
     "InvalidPartitionError", "InvalidReplicationFactorError", "NotEligibleGroupError",
     "RebalanceError"}

\* C22: rebalance called with max_movement_size set ends with one of the
\* balancer's typed errors, raised to the caller, and not with the exit of
\* the process; no pass has run: no replica list has changed and no move
\* was made.
C22_MovementSizeRejectedWithTypedError ==
    (op.name = "rebalance" /\ op.args.max_movement_size # None) =>
        /\ outcome \in TypedErrors
        /\ replicas = pre.R
        /\ trace = <<>>

(***************************************************************************)
(* Claims about the loop of ReplicationGroup.rebalance_brokers.            *)
(***************************************************************************)
\* Every move moves[i..], made in this order from the replica map R, takes a
\* partition off a decommissioned broker or goes from an active broker to an
\* active broker that holds at least two partitions fewer at that moment.
RECURSIVE MovesDecrease(_, _, _, _)
MovesDecrease(R, D, moves, i) ==
    IF i > Len(moves) THEN TRUE
    ELSE /\ moves[i].to \notin D
         /\ \/ moves[i].from \in D
            \/ len_partitions(R)[moves[i].from] - len_partitions(R)[moves[i].to] >= 2
         /\ MovesDecrease(move_partition(R, moves[i].partition, moves[i].from, moves[i].to),
                          D, moves, i + 1)

\* C23: ReplicationGroup.rebalance_brokers terminates: the loop of no group
\* runs out of the iterations the model allows, and every move of the pass
\* either takes a partition off a decommissioned broker or goes from an
\* active broker to an active broker with at least two partitions fewer.
C23_BrokerLoopTerminates ==
    BrokersPassAlone =>
        /\ outcome # "NoTermination"
        /\ MovesDecrease(pre.R, pre.D, trace, 1)

\* A broker pass that took a partition off a decommissioned broker and also
\* moved one between two active brokers.
C23_Witness_BothKindsOfMove ==
    /\ BrokersPassAlone /\ ~op.args.leaders /\ outcome = "ok"
    /\ \E i \in 1..Len(trace) : trace[i].from \in pre.D
    /\ \E i \in 1..Len(trace) : trace[i].from \notin pre.D

(***************************************************************************)
(* Claims about the moves of _rebalance_groups_partition_cnt.              *)
(***************************************************************************)
\* A rebalance call that ran the replication-group pass alone.
GroupsPassAlone ==
    /\ op.name = "rebalance" /\ op.args.max_movement_size = None
    /\ op.args.replication_groups /\ ~op.args.brokers

\* The moves the partition-count loop made, given the result of
\* rebalance_replicas before it: those of the call after the moves of
\* rebalance_replicas.
GroupLoopMoves(spread) == SubSeq(trace, Len(spread.moves) + 1, Len(trace))

\* The groups' replica counts of every partition differ by at most one.
ReplicasSpread(R) ==
    \A p \in Partitions, g, h \in Groups :
        count_replica(R, g, p) - count_replica(R, h, p) <= 1

\* Every move moves[i..], made in this order from the replica map R, takes
\* a replica of a partition from a group that holds more than
\* rf \div #groups replicas of it to a group that holds no more than that,
\* the first group holding at least two replicas more in all than the
\* second; and it leaves every partition's replicas spread if they were.
RECURSIVE MovesKeepBalance(_, _, _)
MovedKeepsBalance(R, R2, moves, i) ==
    /\ ReplicasSpread(R) => ReplicasSpread(R2)
    /\ MovesKeepBalance(R2, moves, i + 1)

MovesKeepBalance(R, moves, i) ==
    IF i > Len(moves) THEN TRUE
    ELSE /\ count_replica(R, rgOf[moves[i].from], moves[i].partition)
                > Len(R[moves[i].partition]) \div Cardinality(Groups)
         /\ count_replica(R, rgOf[moves[i].to], moves[i].partition)
                <= Len(R[moves[i].partition]) \div Cardinality(Groups)
         /\ rg_partition_count(R, rgOf[moves[i].from])
                - rg_partition_count(R, rgOf[moves[i].to]) > 1
         /\ MovedKeepsBalance(R, move_partition(R, moves[i].partition,
                                                moves[i].from, moves[i].to), moves, i)

\* C24: every move of _rebalance_groups_partition_cnt takes a replica of p
\* from a group holding more than floor(rf(p) / #groups) replicas of p to a
\* group holding at most that many, while the first group holds at least two
\* replicas more in all than the second; if the groups' counts of every
\* partition differed by at most one before a move, they do after it.
GroupLoopKeepsBalance(spread) ==
    spread.err = NoError => MovesKeepBalance(spread.R, GroupLoopMoves(spread), 1)

C24_GroupMovesKeepPartitionBalance ==
    GroupsPassAlone => GroupLoopKeepsBalance(rebalance_replicas(pre.R))

\* A partition-count loop that moved two replicas.
C24_Witness_GroupLoopMoved ==
    /\ GroupsPassAlone /\ outcome = "ok"
    /\ Len(trace) >= Len(rebalance_replicas(pre.R).moves) + 2

(***************************************************************************)
(* Claims about decommissioning a whole replication group.                 *)
(***************************************************************************)
\* decommission_brokers was called with valid ids that name every broker of
\* some replication group.
WholeGroupNamed ==
    DecommissionOfValidIds /\ \E g \in Groups : brokers(g) \subseteq Named

\* C26: decommissioning every broker of a replication group is not stopped
\* by the group having no active broker: the call goes on to the force
\* phase, so it ends as the force phase ends: normally or with
\* BrokerDecommissionError.
C26_EmptyGroupIsNotFatal ==
    WholeGroupNamed => outcome \in {"ok", "BrokerDecommissionError"}

(***************************************************************************)
(* Claims about the force phase of decommission_brokers.                   *)
(***************************************************************************)
\* A move of the force phase: off a decommissioned broker, to another group.
ForceMove(m) == m.from \in decommissioned /\ rgOf[m.from] # rgOf[m.to]

\* Group h has no broker without partition p: acquire_partition raises
\* NotEligibleGroupError.
NotEligible(R, h, p) == \A b \in brokers(h) : p \in partitions(R, b)

\* Every force move among moves[i..], made in this order from the replica
\* map R, goes to a group such that every other group but the broker's own
\* with fewer replicas of the partition at that moment was not eligible.
RECURSIVE ForceMovesAscending(_, _, _)
ForceMovesAscending(R, moves, i) ==
    IF i > Len(moves) THEN TRUE
    ELSE /\ ForceMove(moves[i]) =>
               \A h \in Groups \ {rgOf[moves[i].from], rgOf[moves[i].to]} :
                   count_replica(R, h, moves[i].partition)
                       < count_replica(R, rgOf[moves[i].to], moves[i].partition)
                   => NotEligible(R, h, moves[i].partition)
         /\ ForceMovesAscending(move_partition(R, moves[i].partition,
                                               moves[i].from, moves[i].to), moves, i + 1)

\* C25: in the force phase of decommission_brokers a partition left on a
\* decommissioned broker goes to another group, the groups being tried in
\* ascending order of their replica count of the partition: the group that
\* takes it is one such that every other group with a smaller count was not
\* eligible; and the partition is moved off that broker once only.
C25_ForceOffersAscending ==
    DecommissionOfValidIds =>
        /\ ForceMovesAscending(pre.R, trace, 1)
        /\ \A i, j \in 1..Len(trace) :
              (/\ i < j /\ ForceMove(trace[i])
               /\ trace[i].partition = trace[j].partition
               /\ trace[i].from = trace[j].from) => FALSE


\* The replica map before move i of moves, made in this order from R.
RECURSIVE BeforeMove(_, _, _)
BeforeMove(R, moves, i) ==
    IF i = 1 THEN R
    ELSE move_partition(BeforeMove(R, moves, i - 1), moves[i - 1].partition,
                        moves[i - 1].from, moves[i - 1].to)

\* A force move to a group that had more replicas of the partition than
\* another group, which was full.
SmallerGroupRefused(R, m) ==
    /\ ForceMove(m)
    /\ \E h \in Groups \ {rgOf[m.from], rgOf[m.to]} :
          /\ count_replica(R, h, m.partition) < count_replica(R, rgOf[m.to], m.partition)
          /\ NotEligible(R, h, m.partition)

C25_Witness_SmallerGroupRefused ==
    /\ DecommissionOfValidIds /\ outcome = "ok"
    /\ \E i \in 1..Len(trace) : SmallerGroupRefused(BeforeMove(pre.R, trace, i), trace[i])

(***************************************************************************)
(* Claims about the out-of-sync replicas in remove_replica.                *)
(***************************************************************************)
\* The brokers named out of sync that replicated the partition before the
\* call.
OsrReplicas == {b \in Range(op.args[2]) : b \in Range(pre.R[op.args[1]])}

\* The brokers the call took off the partition's replica list.
RemovedBrokers == Range(pre.R[op.args[1]]) \ Range(replicas[op.args[1]])

\* C27: a successful remove_replica(p, osr_ids, k) removes out-of-sync
\* replicas first: an in-sync replica is removed only when every
\* out-of-sync replica of p is removed too, so that with at least k
\* out-of-sync replicas all k brokers removed are out of sync.
C27_OsrRemovedFirst ==
    Removed =>
        /\ (RemovedBrokers \ OsrReplicas # {}) => OsrReplicas \subseteq RemovedBrokers
        /\ Cardinality(OsrReplicas) >= op.args[3] => RemovedBrokers \subseteq OsrReplicas

(***************************************************************************)
(* Claims about add_replica and remove_replica failing midway.             *)
(***************************************************************************)
\* add_replica or remove_replica was called and its precondition checks
\* passed: the call raised none of the errors of its checks.
ChecksPassed ==
    /\ op.name \in {"add_replica", "remove_replica"}
    /\ outcome \notin {"InvalidPartitionError", "InvalidReplicationFactorError",
                       "InvalidBrokerIdError"}

\* C29: once the precondition checks of add_replica or remove_replica have
\* passed, the call does not divide by zero buckets and does not fail after
\* it has added or removed a replica: it ends normally, or with the replica
\* lists it started from.
C29_NoFailureMidway ==
    ChecksPassed =>
        /\ outcome # "ZeroDivisionError"
        /\ outcome # "ok" => replicas = pre.R

(***************************************************************************)
(* Claims about the sibling cache of ReplicationGroup.rebalance_brokers.   *)
(***************************************************************************)
\* Every entry read holds the number of partitions of the partition's topic
\* that the destination holds in the replica map R.
ReadsAreCounts(R, reads) ==
    \A k \in 1..Len(reads) :
        reads[k].cnt = count_siblings(reads[k].partition, partitions(R, reads[k].dest))

\* The loop of rebalance_brokers on group g, from the replica map R1 with the
\* cache sib: every read of every iteration is right.
RECURSIVE SibReadsRight(_, _, _, _, _, _)
RECURSIVE SibReadsRightAt(_, _, _, _, _)
SibReadsRightAt(R1, D, g, t, fuel) ==
    /\ ReadsAreCounts(R1, t.reads)
    /\ (t.err = NoError /\ t.source # None /\ t.dest # None) =>
          SibReadsRight(move_partition(R1, t.partition, t.source, t.dest), D, g, t.sib,
                        rg_separate(move_partition(R1, t.partition, t.source, t.dest), D, g),
                        fuel - 1)

SibReadsRight(R1, D, g, sib, sep, fuel) ==
    IF sep.under = <<>> \/ sep.over = <<>> \/ fuel = 0 THEN TRUE
    ELSE SibReadsRightAt(R1, D, g,
                         _get_target_brokers(R1, D, sep.over, sep.under, sib), fuel)

SibReadsRightFrom(R, D, g, sep) ==
    SibReadsRight(R, D, g, partitions_sib_info(R, sep.over, sep.under), sep, MaxLoop)

\* The broker pass ran first and alone on the topology the call was given.
BrokersPassRan == BrokersPassAlone /\ ~op.args.leaders

\* C28: throughout one ReplicationGroup.rebalance_brokers call, every entry
\* sibling_info[partition][dest] that _get_target_brokers reads exists and
\* equals the number of partitions of that partition's topic that dest holds
\* at that moment, also after earlier moves of the call and after the over-
\* and under-loaded brokers have been worked out again.
C28_SiblingCacheConsistent ==
    BrokersPassRan =>
        \A g \in Groups :
            ~(brokers(g) \subseteq pre.D) =>
                SibReadsRightFrom(pre.R, pre.D, g, rg_separate(pre.R, pre.D, g))

(***************************************************************************)
(* Claims about the retries of send_offset_commit_request_kafka.           *)
(***************************************************************************)
LastAttempt == client.log[Len(client.log)]

\* C30: send_offset_commit_request_kafka is attempted at most RETRY_ATTEMPTS
\* times per call: every attempt but the last one raised
\* ConsumerCoordinatorNotAvailableCode, an attempt that returns ends the call
\* with its value, an attempt that raises anything else ends it with that
\* exception, and the fifth coordinator error in a row is raised to the
\* caller.
C30_AtMostFiveAttempts ==
    client.status # "idle" =>
        /\ client.attempts = Len(client.log)
        /\ client.attempts <= RETRY_ATTEMPTS
        /\ \A i \in 1..(Len(client.log) - 1) : client.log[i] = CoordinatorNotAvailable
        /\ client.status = "calling" <=>
              /\ client.attempts < RETRY_ATTEMPTS
              /\ \A i \in 1..Len(client.log) : client.log[i] = CoordinatorNotAvailable
        /\ client.status = "returned" <=>
              (client.attempts >= 1 /\ LastAttempt = NoError)
        /\ client.status = "raised" =>
              /\ client.raised = LastAttempt
              /\ LastAttempt = CoordinatorNotAvailable => client.attempts = RETRY_ATTEMPTS

\* The fifth attempt in a row met the coordinator error and the caller got it.
C30_Witness_FifthFailureRaised ==
    /\ client.status = "raised"
    /\ client.raised = CoordinatorNotAvailable
    /\ client.attempts = RETRY_ATTEMPTS

====
